---- MODULE Spec2Model ----
(***************************************************************************)
(* Model of ext/apache2/Configuration.cpp (Phusion Passenger): the         *)
(* directory-scope and server-scope configuration records, the directive   *)
(* setter handlers, the pairwise merges and the cross-server merge.        *)
(*                                                                         *)
(* A C string pointer is modelled as a tuple: NULL is <<>>, a non-null     *)
(* pointer to the text s is <<s>>.  The argument of a numeric directive is *)
(* a sequence of one-character strings, so that strtol can be modelled     *)
(* character by character.                                                 *)
(***************************************************************************)
EXTENDS Integers, Sequences, FiniteSets, TLC

VARIABLES
    servers,      \* the server_rec list, in declaration order: servers[1] is main_server
    dirs,         \* the DirConfig record of each directory scope, outermost first
    chain,        \* the records passenger_config_merge_dir produced walking down dirs, in call order
    last,         \* the last call made by the host and what the properties need of it
    nDirectives,  \* number of directives dispatched so far
    nMerges,      \* number of passenger_config_merge_server calls so far
    nNormalize    \* number of passenger_config_merge_all_servers calls so far

vars == <<servers, dirs, chain, last, nDirectives, nMerges, nNormalize>>

(***************************************************************************)
(* Bounds of the model.                                                    *)
(***************************************************************************)
NumServers    == 2   \* server blocks: the main server and the virtual hosts
NumDirs       == 3   \* nested directory scopes, the outermost first
MaxDirectives == 2   \* directives in the configuration text
MaxNormalize  == 2   \* calls of passenger_config_merge_all_servers

(***************************************************************************)
(* Program constants.                                                      *)
(***************************************************************************)
DEFAULT_LOG_LEVEL             == 0
DEFAULT_MAX_POOL_SIZE         == 6
DEFAULT_POOL_IDLE_TIME        == 300
DEFAULT_MAX_INSTANCES_PER_APP == 0

NULL == <<>>
Ptr(s) == <<s>>

(***************************************************************************)
(* A C `long` (64 bits wide, two's complement) is modelled as three limbs: *)
(* the record [hi, mid, lo] stands for hi * 2^32 + mid * 2^16 + lo with    *)
(* mid and lo in 0..65535 and hi, the signed upper half, in -2^31..2^31-1. *)
(* Every limb stays within the integers TLC computes with.  The integer    *)
(* fields of the records hold values of this form as well: an unsigned     *)
(* field holds the same limbs, read without a sign (an unsigned int has hi *)
(* 0), so that every value a field can take is a value of the model.       *)
(***************************************************************************)
LONG_MAX == [hi |-> 2147483647, mid |-> 65535, lo |-> 65535]

LONG_MIN == [hi |-> -2147483647 - 1, mid |-> 0, lo |-> 0]

\* n as a long, for n an integer of the model.
ToLong(n) ==
    [hi  |-> IF n < 0 THEN -1 ELSE 0,
     mid |-> (n \div 65536) % 65536,
     lo  |-> n % 65536]

\* v * 10 + d > LONG_MAX, for a non-negative long v and a decimal digit d.
LongTimes10PlusOverflows(v, d) ==
    LET t0 == v.lo * 10 + d
        t1 == v.mid * 10 + t0 \div 65536
    IN  v.hi > (2147483647 - t1 \div 65536) \div 10

\* v * 10 + d, the step of strtol for the decimal digit d, where it fits.
LongTimes10Plus(v, d) ==
    LET t0 == v.lo * 10 + d
        t1 == v.mid * 10 + t0 \div 65536
    IN  [hi |-> v.hi * 10 + t1 \div 65536, mid |-> t1 % 65536, lo |-> t0 % 65536]

\* -v, for v other than LONG_MIN.
LongNegate(v) ==
    IF v.mid = 0 /\ v.lo = 0
    THEN [hi |-> 0 - v.hi, mid |-> 0, lo |-> 0]
    ELSE IF v.lo = 0
    THEN [hi |-> 0 - v.hi - 1, mid |-> 65536 - v.mid, lo |-> 0]
    ELSE [hi |-> 0 - v.hi - 1, mid |-> 65535 - v.mid, lo |-> 65536 - v.lo]

\* v < n, for a long v and an integer n of the model.
LongLess(v, n) ==
    LET w == ToLong(n)
    IN  \/ v.hi < w.hi
        \/ v.hi = w.hi /\ v.mid < w.mid
        \/ v.hi = w.hi /\ v.mid = w.mid /\ v.lo < w.lo

(***************************************************************************)
(* strtol(arg, &end, 10): skips leading white space, reads an optional     *)
(* sign and then decimal digits.  `end` is the index of the first          *)
(* character that was not consumed (Len(arg) + 1 stands for the            *)
(* terminating '\0'); when no digit is read, end is the start of arg and   *)
(* the result is 0.  When the digits denote a number outside the range of  *)
(* a long, all of them are still consumed and the result is LONG_MAX, or   *)
(* LONG_MIN after a minus sign.                                            *)
(***************************************************************************)
Digits == <<"0", "1", "2", "3", "4", "5", "6", "7", "8", "9">>

IsDigit(c) == \E d \in 1..10 : Digits[d] = c

DigitVal(c) == (CHOOSE d \in 1..10 : Digits[d] = c) - 1

\* isspace() in the C locale: space, \t, \n, \r, form feed and vertical tab.
\* The last string of the set holds the vertical tab, the byte 0x0B itself.
IsSpace(c) == c \in {" ", "\t", "\n", "\r", "\f", ""}

RECURSIVE SkipSpace(_, _)
SkipSpace(arg, i) ==
    IF i <= Len(arg) /\ IsSpace(arg[i]) THEN SkipSpace(arg, i + 1) ELSE i

\* The digit loop: acc is the magnitude read so far, over tells that the
\* magnitude has passed LONG_MAX.
RECURSIVE ReadDigits(_, _, _, _)
ReadDigits(arg, i, acc, over) ==
    IF i <= Len(arg) /\ IsDigit(arg[i])
    THEN IF over \/ LongTimes10PlusOverflows(acc, DigitVal(arg[i]))
         THEN ReadDigits(arg, i + 1, acc, TRUE)
         ELSE ReadDigits(arg, i + 1, LongTimes10Plus(acc, DigitVal(arg[i])), FALSE)
    ELSE [result |-> acc, over |-> over, end |-> i]

strtol(arg) ==
    LET s == SkipSpace(arg, 1)
        neg == s <= Len(arg) /\ arg[s] = "-"
        d == IF s <= Len(arg) /\ arg[s] \in {"-", "+"} THEN s + 1 ELSE s
        r == ReadDigits(arg, d, ToLong(0), FALSE)
    IN  IF r.end = d
        THEN [result |-> ToLong(0), end |-> 1]
        ELSE [result |-> IF r.over THEN (IF neg THEN LONG_MIN ELSE LONG_MAX)
                         ELSE IF neg THEN LongNegate(r.result)
                         ELSE r.result,
              end |-> r.end]

\* *end != '\0'
EndNotNul(arg, r) == r.end <= Len(arg)

(***************************************************************************)
(* The fields of the two record types by the way they mark "not set".      *)
(***************************************************************************)
\* ServerConfig: a value field and its companion explicit-set flag.
ServerFlagged ==
    {[value |-> "maxPoolSize",        flag |-> "maxPoolSizeSpecified"],
     [value |-> "maxInstancesPerApp", flag |-> "maxInstancesPerAppSpecified"],
     [value |-> "poolIdleTime",       flag |-> "poolIdleTimeSpecified"]}

\* ServerConfig: the nullable strings.
ServerStrings == {"ruby", "root", "defaultUser"}

\* DirConfig: a value field and its companion explicit-set flag.
DirFlagged ==
    {[value |-> "maxRequests", flag |-> "maxRequestsSpecified"],
     [value |-> "memoryLimit", flag |-> "memoryLimitSpecified"]}

\* DirConfig: the Threeway fields, the nullable strings, the -1-sentinel
\* timeouts and the sets.
TriStateFields ==
    {"enabled", "autoDetectRails", "autoDetectRack", "autoDetectWSGI",
     "allowModRewrite", "highPerformance", "useGlobalQueue"}

NullableFields == {"railsEnv", "rackEnv", "railsAppRoot"}

TimeoutFields == {"frameworkSpawnerTimeout", "appSpawnerTimeout"}

SetFields == {"railsBaseURIs", "rackBaseURIs"}

\* The DirConfig fields that have an unset marker, and the marker of each.
MarkerFields ==
    TriStateFields \cup NullableFields \cup TimeoutFields \cup {"spawnMethod"}

UnsetMarker(f) ==
    IF f \in TriStateFields THEN "UNSET"
    ELSE IF f = "spawnMethod" THEN "SM_UNSET"
    ELSE IF f \in NullableFields THEN NULL
    ELSE ToLong(-1)

(***************************************************************************)
(* Server-scope records.                                                   *)
(***************************************************************************)
passenger_config_create_server ==
    [ruby                        |-> NULL,
     root                        |-> NULL,
     logLevel                    |-> ToLong(DEFAULT_LOG_LEVEL),
     maxPoolSize                 |-> ToLong(DEFAULT_MAX_POOL_SIZE),
     maxPoolSizeSpecified        |-> FALSE,
     maxInstancesPerApp          |-> ToLong(DEFAULT_MAX_INSTANCES_PER_APP),
     maxInstancesPerAppSpecified |-> FALSE,
     poolIdleTime                |-> ToLong(DEFAULT_POOL_IDLE_TIME),
     poolIdleTimeSpecified       |-> FALSE,
     userSwitching               |-> TRUE,
     userSwitchingSpecified      |-> FALSE,
     defaultUser                 |-> NULL]

\* Mutant: the log level follows the pattern of the other fields (override
\* wins when it is non-zero).
merge_server_logLevelOverrideWins(base, add) ==
    [f \in DOMAIN base |->
        IF f \in ServerStrings THEN (IF add[f] = NULL THEN base[f] ELSE add[f])
        ELSE IF f = "logLevel" THEN (IF add[f] # ToLong(0) THEN add[f] ELSE base[f])
        ELSE IF f \in {"maxPoolSize", "maxInstancesPerApp"}
             THEN (IF add[f \o "Specified"] THEN base[f] ELSE add[f])
        ELSE IF f = "poolIdleTime" THEN (IF add[f] # ToLong(0) THEN base[f] ELSE add[f])
        ELSE IF f = "userSwitching"
             THEN (IF add.userSwitchingSpecified THEN add[f] ELSE base[f])
        ELSE base[f] \/ add[f]]

\* Mutant: the explicit-set flags are copied from the overriding record.
merge_server_flagsFromAdd(base, add) ==
    [f \in DOMAIN base |->
        IF f \in ServerStrings THEN (IF add[f] = NULL THEN base[f] ELSE add[f])
        ELSE IF f = "logLevel" THEN (IF add[f] # ToLong(0) THEN base[f] ELSE add[f])
        ELSE IF f \in {"maxPoolSize", "maxInstancesPerApp"}
             THEN (IF add[f \o "Specified"] THEN base[f] ELSE add[f])
        ELSE IF f = "poolIdleTime" THEN (IF add[f] # ToLong(0) THEN base[f] ELSE add[f])
        ELSE IF f = "userSwitching"
             THEN (IF add.userSwitchingSpecified THEN add[f] ELSE base[f])
        ELSE add[f]]

passenger_config_merge_server(base, add) ==
    [ruby                        |-> IF add.ruby = NULL THEN base.ruby ELSE add.ruby,
     root                        |-> IF add.root = NULL THEN base.root ELSE add.root,
     logLevel                    |-> IF add.logLevel # ToLong(0) THEN base.logLevel ELSE add.logLevel,
     maxPoolSize                 |-> IF add.maxPoolSizeSpecified
                                     THEN base.maxPoolSize ELSE add.maxPoolSize,
     maxPoolSizeSpecified        |-> base.maxPoolSizeSpecified \/ add.maxPoolSizeSpecified,
     maxInstancesPerApp          |-> IF add.maxInstancesPerAppSpecified
                                     THEN base.maxInstancesPerApp ELSE add.maxInstancesPerApp,
     maxInstancesPerAppSpecified |-> base.maxInstancesPerAppSpecified
                                     \/ add.maxInstancesPerAppSpecified,
     poolIdleTime                |-> IF add.poolIdleTime # ToLong(0)
                                     THEN base.poolIdleTime ELSE add.poolIdleTime,
     poolIdleTimeSpecified       |-> base.poolIdleTimeSpecified \/ add.poolIdleTimeSpecified,
     userSwitching               |-> IF add.userSwitchingSpecified
                                     THEN add.userSwitching ELSE base.userSwitching,
     userSwitchingSpecified      |-> base.userSwitchingSpecified \/ add.userSwitchingSpecified,
     defaultUser                 |-> IF add.defaultUser = NULL
                                     THEN base.defaultUser ELSE add.defaultUser]

\* Mutant: the flagged integer fields are folded the way userSwitching is
\* (the visited server's value wins when that server set it).
FoldServer_visitedSetterWins(final, config) ==
    [f \in DOMAIN final |->
        IF f \in ServerStrings THEN (IF final[f] # NULL THEN final[f] ELSE config[f])
        ELSE IF f = "logLevel" THEN (IF final[f] # ToLong(0) THEN final[f] ELSE config[f])
        ELSE IF f \in {"maxPoolSize", "maxInstancesPerApp", "poolIdleTime", "userSwitching"}
             THEN (IF config[f \o "Specified"] THEN config[f] ELSE final[f])
        ELSE final[f] \/ config[f]]

\* Mutant: userSwitching is folded the way the flagged integer fields are
\* (the accumulator keeps its value once it is set).
FoldServer_firstUserSwitchingWins(final, config) ==
    [f \in DOMAIN final |->
        IF f \in ServerStrings THEN (IF final[f] # NULL THEN final[f] ELSE config[f])
        ELSE IF f = "logLevel" THEN (IF final[f] # ToLong(0) THEN final[f] ELSE config[f])
        ELSE IF f \in {"maxPoolSize", "maxInstancesPerApp", "poolIdleTime", "userSwitching"}
             THEN (IF final[f \o "Specified"] THEN final[f] ELSE config[f])
        ELSE final[f] \/ config[f]]

\* One iteration of the first loop of passenger_config_merge_all_servers.
FoldServer(final, config) ==
    [ruby                        |-> IF final.ruby # NULL THEN final.ruby ELSE config.ruby,
     root                        |-> IF final.root # NULL THEN final.root ELSE config.root,
     logLevel                    |-> IF final.logLevel # ToLong(0) THEN final.logLevel ELSE config.logLevel,
     maxPoolSize                 |-> IF final.maxPoolSizeSpecified
                                     THEN final.maxPoolSize ELSE config.maxPoolSize,
     maxPoolSizeSpecified        |-> final.maxPoolSizeSpecified \/ config.maxPoolSizeSpecified,
     maxInstancesPerApp          |-> IF final.maxInstancesPerAppSpecified
                                     THEN final.maxInstancesPerApp ELSE config.maxInstancesPerApp,
     maxInstancesPerAppSpecified |-> final.maxInstancesPerAppSpecified
                                     \/ config.maxInstancesPerAppSpecified,
     poolIdleTime                |-> IF final.poolIdleTimeSpecified
                                     THEN final.poolIdleTime ELSE config.poolIdleTime,
     poolIdleTimeSpecified       |-> final.poolIdleTimeSpecified \/ config.poolIdleTimeSpecified,
     userSwitching               |-> IF config.userSwitchingSpecified
                                     THEN config.userSwitching ELSE final.userSwitching,
     userSwitchingSpecified      |-> final.userSwitchingSpecified \/ config.userSwitchingSpecified,
     defaultUser                 |-> IF final.defaultUser # NULL
                                     THEN final.defaultUser ELSE config.defaultUser]

\* The first loop: for (s = main_server; s != NULL; s = s->next), from position i.
RECURSIVE FoldServers(_, _, _)
FoldServers(final, list, i) ==
    IF i > Len(list) THEN final
    ELSE FoldServers(FoldServer(final, list[i]), list, i + 1)

\* The accumulator after the first loop.
FinalServer(list) == FoldServers(passenger_config_create_server, list, 1)

\* Mutant: the second loop starts at main_server->next.
merge_all_servers_skipMain(list) ==
    [i \in 1..Len(list) |-> IF i = 1 THEN list[1] ELSE FinalServer(list)]

\* Mutant: the second loop merges *final into each record instead of copying it.
merge_all_servers_mergeBack(list) ==
    [i \in 1..Len(list) |-> passenger_config_merge_server(FinalServer(list), list[i])]

\* Both loops: the list after every record was overwritten with *final.
passenger_config_merge_all_servers(list) ==
    [i \in 1..Len(list) |-> FinalServer(list)]

(***************************************************************************)
(* (unsigned int) result: the long is reduced modulo 2^32, which keeps its *)
(* two low limbs and clears the upper half.                                *)
(***************************************************************************)
ToUInt(v) == [hi |-> 0, mid |-> v.mid, lo |-> v.lo]

(***************************************************************************)
(* Setter handlers of the server scope.  Each takes the ServerConfig of    *)
(* cmd->server and the directive's argument and yields the handler's       *)
(* return value (NULL, or a pointer to the error message) together with    *)
(* the record as the handler leaves it.                                    *)
(***************************************************************************)
cmd_passenger_root(config, arg) ==
    [ret |-> NULL, config |-> [config EXCEPT !.root = Ptr(arg)]]

cmd_passenger_log_level(config, arg) ==
    LET r == strtol(arg) IN
    IF EndNotNul(arg, r)
    THEN [ret |-> Ptr("Invalid number specified for PassengerLogLevel."),
          config |-> config]
    ELSE IF LongLess(r.result, 0) \/ ~LongLess(r.result, 10)
    THEN [ret |-> Ptr("Value for PassengerLogLevel must be between 0 and 9."),
          config |-> config]
    ELSE [ret |-> NULL,
          config |-> [config EXCEPT !.logLevel = ToUInt(r.result)]]

cmd_passenger_ruby(config, arg) ==
    [ret |-> NULL, config |-> [config EXCEPT !.ruby = Ptr(arg)]]

\* Mutant: the explicit-set flag is raised before the argument is validated.
max_pool_size_flagBeforeCheck(config, arg) ==
    LET r == strtol(arg)
        flagged == [config EXCEPT !.maxPoolSizeSpecified = TRUE]
    IN  IF EndNotNul(arg, r)
        THEN [ret |-> Ptr("Invalid number specified for PassengerMaxPoolSize."),
              config |-> flagged]
        ELSE IF LongLess(r.result, 1)
        THEN [ret |-> Ptr("Value for PassengerMaxPoolSize must be greater than 0."),
              config |-> flagged]
        ELSE [ret |-> NULL,
              config |-> [flagged EXCEPT !.maxPoolSize = ToUInt(r.result)]]

cmd_passenger_max_pool_size(config, arg) ==
    LET r == strtol(arg) IN
    IF EndNotNul(arg, r)
    THEN [ret |-> Ptr("Invalid number specified for PassengerMaxPoolSize."),
          config |-> config]
    ELSE IF LongLess(r.result, 1)
    THEN [ret |-> Ptr("Value for PassengerMaxPoolSize must be greater than 0."),
          config |-> config]
    ELSE [ret |-> NULL,
          config |-> [config EXCEPT !.maxPoolSize = ToUInt(r.result),
                                    !.maxPoolSizeSpecified = TRUE]]

cmd_passenger_max_instances_per_app(config, arg) ==
    LET r == strtol(arg) IN
    IF EndNotNul(arg, r)
    THEN [ret |-> Ptr("Invalid number specified for PassengerMaxInstancesPerApp."),
          config |-> config]
    ELSE [ret |-> NULL,
          config |-> [config EXCEPT !.maxInstancesPerApp = ToUInt(r.result),
                                    !.maxInstancesPerAppSpecified = TRUE]]

cmd_passenger_pool_idle_time(config, arg) ==
    LET r == strtol(arg) IN
    IF EndNotNul(arg, r)
    THEN [ret |-> Ptr("Invalid number specified for PassengerPoolIdleTime."),
          config |-> config]
    ELSE IF LongLess(r.result, 1)
    THEN [ret |-> Ptr("Value for PassengerPoolIdleTime must be greater than 0."),
          config |-> config]
    ELSE [ret |-> NULL,
          config |-> [config EXCEPT !.poolIdleTime = ToUInt(r.result),
                                    !.poolIdleTimeSpecified = TRUE]]

\* arg is the int of an AP_INIT_FLAG directive: 1 for On, 0 for Off.
cmd_passenger_user_switching(config, arg) ==
    [ret |-> NULL,
     config |-> [config EXCEPT !.userSwitching = (arg # 0),
                               !.userSwitchingSpecified = TRUE]]

cmd_passenger_default_user(config, arg) ==
    [ret |-> NULL, config |-> [config EXCEPT !.defaultUser = Ptr(arg)]]

(***************************************************************************)
(* Arguments the host hands to the handlers.                               *)
(***************************************************************************)
\* Arguments of the numeric directives: "0", "1", "2", "-1" and "5x".
NumArgs == {<<"0">>, <<"1">>, <<"2">>, <<"-", "1">>, <<"5", "x">>}

\* Arguments of the path, user and environment directives.
StrArgs == {"a", "b"}

\* Arguments of the AP_INIT_FLAG directives: On and Off.
FlagArgs == {0, 1}

Servers == 1..NumServers

\* What `last` holds after a handler returned NULL.  After a handler returned
\* an error message `last` holds the handler's name, the scope and position of
\* its target record, that record as it was before the call, and the message.
Accepted == [op |-> "directive", ret |-> NULL]

(***************************************************************************)
(* The host dispatches a server-scope directive to its handler, which      *)
(* looks up the ServerConfig of cmd->server (here: server block s).        *)
(***************************************************************************)
ServerDirective(name, s, r) ==
    /\ nDirectives < MaxDirectives
    /\ nMerges = 0 /\ nNormalize = 0
    /\ nDirectives' = nDirectives + 1
    /\ servers' = [servers EXCEPT ![s] = r.config]
    /\ last' = IF r.ret = NULL THEN Accepted
                ELSE [op |-> name, scope |-> "server", target |-> s,
                      before |-> servers[s], ret |-> r.ret]
    /\ UNCHANGED <<dirs, chain, nMerges, nNormalize>>

PassengerRoot ==
    \E s \in Servers, arg \in StrArgs :
        ServerDirective("cmd_passenger_root", s, cmd_passenger_root(servers[s], arg))

PassengerLogLevel ==
    \E s \in Servers, arg \in NumArgs :
        ServerDirective("cmd_passenger_log_level", s,
                        cmd_passenger_log_level(servers[s], arg))

PassengerRuby ==
    \E s \in Servers, arg \in StrArgs :
        ServerDirective("cmd_passenger_ruby", s, cmd_passenger_ruby(servers[s], arg))

PassengerMaxPoolSize ==
    \E s \in Servers, arg \in NumArgs :
        ServerDirective("cmd_passenger_max_pool_size", s,
                        cmd_passenger_max_pool_size(servers[s], arg))

\* The handler has no range check: "-1" is stored as 2^32 - 1.
PassengerMaxInstancesPerApp ==
    \E s \in Servers, arg \in NumArgs :
        ServerDirective("cmd_passenger_max_instances_per_app", s,
                        cmd_passenger_max_instances_per_app(servers[s], arg))

PassengerPoolIdleTime ==
    \E s \in Servers, arg \in NumArgs :
        ServerDirective("cmd_passenger_pool_idle_time", s,
                        cmd_passenger_pool_idle_time(servers[s], arg))

PassengerUserSwitching ==
    \E s \in Servers, arg \in FlagArgs :
        ServerDirective("cmd_passenger_user_switching", s,
                        cmd_passenger_user_switching(servers[s], arg))

PassengerDefaultUser ==
    \E s \in Servers, arg \in StrArgs :
        ServerDirective("cmd_passenger_default_user", s,
                        cmd_passenger_default_user(servers[s], arg))

(***************************************************************************)
(* After the configuration text is read the host merges the main server's  *)
(* record into the record of each virtual host, in declaration order:      *)
(* base is servers[1], add is the virtual host's record, and the result    *)
(* replaces the virtual host's record.                                     *)
(***************************************************************************)
MergeServer ==
    /\ nMerges < NumServers - 1
    /\ nNormalize = 0
    /\ nMerges' = nMerges + 1
    /\ LET a == nMerges + 2
           config == passenger_config_merge_server(servers[1], servers[a])
       IN  /\ servers' = [servers EXCEPT ![a] = config]
           /\ last' = [op |-> "passenger_config_merge_server", target |-> a,
                       base |-> servers[1], add |-> servers[a], result |-> config]
    /\ UNCHANGED <<dirs, chain, nDirectives, nNormalize>>

\* The host calls passenger_config_merge_all_servers on the server list.
MergeAllServers ==
    /\ nNormalize < MaxNormalize
    /\ nNormalize' = nNormalize + 1
    /\ servers' = passenger_config_merge_all_servers(servers)
    /\ last' = [op |-> "passenger_config_merge_all_servers", before |-> servers]
    /\ UNCHANGED <<dirs, chain, nDirectives, nMerges>>

(***************************************************************************)
(* Directory-scope records.  A DirConfig::Threeway is "ENABLED",           *)
(* "DISABLED" or "UNSET"; a DirConfig::SpawnMethod is "SM_UNSET",          *)
(* "SM_SMART", "SM_SMART_LV2" or "SM_CONSERVATIVE".  The two std::set      *)
(* members are empty after `new DirConfig()`.                              *)
(***************************************************************************)
passenger_config_create_dir ==
    [enabled                  |-> "UNSET",
     railsBaseURIs            |-> {},
     rackBaseURIs             |-> {},
     autoDetectRails          |-> "UNSET",
     autoDetectRack           |-> "UNSET",
     autoDetectWSGI           |-> "UNSET",
     allowModRewrite          |-> "UNSET",
     railsEnv                 |-> NULL,
     rackEnv                  |-> NULL,
     railsAppRoot             |-> NULL,
     spawnMethod              |-> "SM_UNSET",
     frameworkSpawnerTimeout  |-> ToLong(-1),
     appSpawnerTimeout        |-> ToLong(-1),
     maxRequests              |-> ToLong(0),
     maxRequestsSpecified     |-> FALSE,
     memoryLimit              |-> ToLong(0),
     memoryLimitSpecified     |-> FALSE,
     highPerformance          |-> "UNSET",
     useGlobalQueue           |-> "UNSET"]

\* Mutant: the sets of the overriding scope replace those of the base.
merge_dir_setsReplaced(base, add) ==
    [f \in DOMAIN base |->
        IF f \in MarkerFields THEN (IF add[f] = UnsetMarker(f) THEN base[f] ELSE add[f])
        ELSE IF f \in SetFields THEN add[f]
        ELSE IF f \in {"maxRequests", "memoryLimit"}
             THEN (IF add[f \o "Specified"] THEN add[f] ELSE base[f])
        ELSE base[f] \/ add[f]]

\* Mutant: the explicit-set flags are copied from the overriding scope.
merge_dir_flagsFromAdd(base, add) ==
    [f \in DOMAIN base |->
        IF f \in MarkerFields THEN (IF add[f] = UnsetMarker(f) THEN base[f] ELSE add[f])
        ELSE IF f \in SetFields THEN base[f] \cup add[f]
        ELSE IF f \in {"maxRequests", "memoryLimit"}
             THEN (IF add[f \o "Specified"] THEN add[f] ELSE base[f])
        ELSE add[f]]

\* Mutant: the spawn method and the timeouts are copied from the overriding
\* scope even when it left them unset.
merge_dir_noInherit(base, add) ==
    [f \in DOMAIN base |->
        IF f \in TriStateFields \cup NullableFields
        THEN (IF add[f] = UnsetMarker(f) THEN base[f] ELSE add[f])
        ELSE IF f \in TimeoutFields \cup {"spawnMethod"} THEN add[f]
        ELSE IF f \in SetFields THEN base[f] \cup add[f]
        ELSE IF f \in {"maxRequests", "memoryLimit"}
             THEN (IF add[f \o "Specified"] THEN add[f] ELSE base[f])
        ELSE base[f] \/ add[f]]

\* The loops that insert every element of add's set into a copy of base's set
\* are written as the union they compute.
passenger_config_merge_dir(base, add) ==
    [enabled                  |-> IF add.enabled = "UNSET" THEN base.enabled ELSE add.enabled,
     railsBaseURIs            |-> base.railsBaseURIs \cup add.railsBaseURIs,
     rackBaseURIs             |-> base.rackBaseURIs \cup add.rackBaseURIs,
     autoDetectRails          |-> IF add.autoDetectRails = "UNSET" THEN base.autoDetectRails ELSE add.autoDetectRails,
     autoDetectRack           |-> IF add.autoDetectRack = "UNSET" THEN base.autoDetectRack ELSE add.autoDetectRack,
     autoDetectWSGI           |-> IF add.autoDetectWSGI = "UNSET" THEN base.autoDetectWSGI ELSE add.autoDetectWSGI,
     allowModRewrite          |-> IF add.allowModRewrite = "UNSET" THEN base.allowModRewrite ELSE add.allowModRewrite,
     railsEnv                 |-> IF add.railsEnv = NULL THEN base.railsEnv ELSE add.railsEnv,
     rackEnv                  |-> IF add.rackEnv = NULL THEN base.rackEnv ELSE add.rackEnv,
     railsAppRoot             |-> IF add.railsAppRoot = NULL THEN base.railsAppRoot ELSE add.railsAppRoot,
     spawnMethod              |-> IF add.spawnMethod = "SM_UNSET" THEN base.spawnMethod ELSE add.spawnMethod,
     frameworkSpawnerTimeout  |-> IF add.frameworkSpawnerTimeout = ToLong(-1) THEN base.frameworkSpawnerTimeout ELSE add.frameworkSpawnerTimeout,
     appSpawnerTimeout        |-> IF add.appSpawnerTimeout = ToLong(-1) THEN base.appSpawnerTimeout ELSE add.appSpawnerTimeout,
     maxRequests              |-> IF add.maxRequestsSpecified THEN add.maxRequests ELSE base.maxRequests,
     maxRequestsSpecified     |-> base.maxRequestsSpecified \/ add.maxRequestsSpecified,
     memoryLimit              |-> IF add.memoryLimitSpecified THEN add.memoryLimit ELSE base.memoryLimit,
     memoryLimitSpecified     |-> base.memoryLimitSpecified \/ add.memoryLimitSpecified,
     highPerformance          |-> IF add.highPerformance = "UNSET" THEN base.highPerformance ELSE add.highPerformance,
     useGlobalQueue           |-> IF add.useGlobalQueue = "UNSET" THEN base.useGlobalQueue ELSE add.useGlobalQueue]

(***************************************************************************)
(* Setter handlers of the directory scope: pcfg is the DirConfig of the    *)
(* scope the directive stands in.                                          *)
(***************************************************************************)
cmd_passenger_use_global_queue(config, arg) ==
    [ret |-> NULL,
     config |-> IF arg # 0 THEN [config EXCEPT !.useGlobalQueue = "ENABLED"]
                ELSE [config EXCEPT !.useGlobalQueue = "DISABLED"]]

cmd_passenger_max_requests(config, arg) ==
    LET r == strtol(arg) IN
    IF EndNotNul(arg, r)
    THEN [ret |-> Ptr("Invalid number specified for PassengerMaxRequests."),
          config |-> config]
    ELSE IF LongLess(r.result, 0)
    THEN [ret |-> Ptr("Value for PassengerMaxRequests must be greater than or equal to 0."),
          config |-> config]
    ELSE \* (unsigned long) result keeps the limbs of the long
         [ret |-> NULL,
          config |-> [config EXCEPT !.maxRequests = r.result,
                                    !.maxRequestsSpecified = TRUE]]

cmd_passenger_high_performance(config, arg) ==
    [ret |-> NULL,
     config |-> IF arg # 0 THEN [config EXCEPT !.highPerformance = "ENABLED"]
                ELSE [config EXCEPT !.highPerformance = "DISABLED"]]

cmd_passenger_enabled(config, arg) ==
    [ret |-> NULL,
     config |-> IF arg # 0 THEN [config EXCEPT !.enabled = "ENABLED"]
                ELSE [config EXCEPT !.enabled = "DISABLED"]]

cmd_rails_base_uri(config, arg) ==
    [ret |-> NULL,
     config |-> [config EXCEPT !.railsBaseURIs = config.railsBaseURIs \cup {arg}]]

cmd_rails_auto_detect(config, arg) ==
    [ret |-> NULL,
     config |-> [config EXCEPT !.autoDetectRails =
                                   IF arg # 0 THEN "ENABLED" ELSE "DISABLED"]]

cmd_rails_allow_mod_rewrite(config, arg) ==
    [ret |-> NULL,
     config |-> [config EXCEPT !.allowModRewrite =
                                   IF arg # 0 THEN "ENABLED" ELSE "DISABLED"]]

cmd_rails_env(config, arg) ==
    [ret |-> NULL, config |-> [config EXCEPT !.railsEnv = Ptr(arg)]]

cmd_rails_app_root(config, arg) ==
    [ret |-> NULL, config |-> [config EXCEPT !.railsAppRoot = Ptr(arg)]]

cmd_rails_spawn_method(config, arg) ==
    IF arg = "smart"
    THEN [ret |-> NULL, config |-> [config EXCEPT !.spawnMethod = "SM_SMART"]]
    ELSE IF arg = "smart-lv2"
    THEN [ret |-> NULL, config |-> [config EXCEPT !.spawnMethod = "SM_SMART_LV2"]]
    ELSE IF arg = "conservative"
    THEN [ret |-> NULL, config |-> [config EXCEPT !.spawnMethod = "SM_CONSERVATIVE"]]
    ELSE [ret |-> Ptr("RailsSpawnMethod may only be 'smart', 'smart-lv2' or 'conservative'."),
          config |-> config]

cmd_rails_framework_spawner_idle_time(config, arg) ==
    LET r == strtol(arg) IN
    IF EndNotNul(arg, r)
    THEN [ret |-> Ptr("Invalid number specified for RailsFrameworkSpawnerIdleTime."),
          config |-> config]
    ELSE IF LongLess(r.result, 0)
    THEN [ret |-> Ptr("Value for RailsFrameworkSpawnerIdleTime must be at least 0."),
          config |-> config]
    ELSE [ret |-> NULL,
          config |-> [config EXCEPT !.frameworkSpawnerTimeout = r.result]]

cmd_rails_app_spawner_idle_time(config, arg) ==
    LET r == strtol(arg) IN
    IF EndNotNul(arg, r)
    THEN [ret |-> Ptr("Invalid number specified for RailsAppSpawnerIdleTime."),
          config |-> config]
    ELSE IF LongLess(r.result, 0)
    THEN [ret |-> Ptr("Value for RailsAppSpawnerIdleTime must be at least 0."),
          config |-> config]
    ELSE [ret |-> NULL,
          config |-> [config EXCEPT !.appSpawnerTimeout = r.result]]

cmd_rack_base_uri(config, arg) ==
    [ret |-> NULL,
     config |-> [config EXCEPT !.rackBaseURIs = config.rackBaseURIs \cup {arg}]]

cmd_rack_auto_detect(config, arg) ==
    [ret |-> NULL,
     config |-> [config EXCEPT !.autoDetectRack =
                                   IF arg # 0 THEN "ENABLED" ELSE "DISABLED"]]

cmd_rack_env(config, arg) ==
    [ret |-> NULL, config |-> [config EXCEPT !.rackEnv = Ptr(arg)]]

cmd_wsgi_auto_detect(config, arg) ==
    [ret |-> NULL,
     config |-> [config EXCEPT !.autoDetectWSGI =
                                   IF arg # 0 THEN "ENABLED" ELSE "DISABLED"]]

\* The obsolete RailsSpawnServer: prints a warning and changes nothing.
cmd_rails_spawn_server(config, arg) ==
    [ret |-> NULL, config |-> config]

(***************************************************************************)
(* The host dispatches a directory-scope directive to its handler with     *)
(* pcfg, the DirConfig of the scope d the directive stands in.  The text   *)
(* of a scope is read before that scope is merged: the directives of a     *)
(* narrower scope (a .htaccess file) may still arrive while the walk has   *)
(* merged the wider ones.                                                  *)
(***************************************************************************)
Dirs == 1..NumDirs

UriArgs == {"/app1", "/app2"}

SpawnArgs == {"smart", "smart-lv2", "conservative", "turbo"}

DirDirective(name, d, r) ==
    /\ nDirectives < MaxDirectives
    /\ Len(chain) < (IF d = 1 THEN 1 ELSE d - 1)
    /\ nDirectives' = nDirectives + 1
    /\ dirs' = [dirs EXCEPT ![d] = r.config]
    /\ last' = IF r.ret = NULL THEN Accepted
                ELSE [op |-> name, scope |-> "dir", target |-> d,
                      before |-> dirs[d], ret |-> r.ret]
    /\ UNCHANGED <<servers, chain, nMerges, nNormalize>>

PassengerUseGlobalQueue ==
    \E d \in Dirs, arg \in FlagArgs :
        DirDirective("cmd_passenger_use_global_queue", d,
                     cmd_passenger_use_global_queue(dirs[d], arg))

PassengerMaxRequests ==
    \E d \in Dirs, arg \in NumArgs :
        DirDirective("cmd_passenger_max_requests", d,
                     cmd_passenger_max_requests(dirs[d], arg))

PassengerHighPerformance ==
    \E d \in Dirs, arg \in FlagArgs :
        DirDirective("cmd_passenger_high_performance", d,
                     cmd_passenger_high_performance(dirs[d], arg))

PassengerEnabled ==
    \E d \in Dirs, arg \in FlagArgs :
        DirDirective("cmd_passenger_enabled", d, cmd_passenger_enabled(dirs[d], arg))

RailsBaseURI ==
    \E d \in Dirs, arg \in UriArgs :
        DirDirective("cmd_rails_base_uri", d, cmd_rails_base_uri(dirs[d], arg))

RailsAutoDetect ==
    \E d \in Dirs, arg \in FlagArgs :
        DirDirective("cmd_rails_auto_detect", d, cmd_rails_auto_detect(dirs[d], arg))

RailsAllowModRewrite ==
    \E d \in Dirs, arg \in FlagArgs :
        DirDirective("cmd_rails_allow_mod_rewrite", d,
                     cmd_rails_allow_mod_rewrite(dirs[d], arg))

RailsEnv ==
    \E d \in Dirs, arg \in StrArgs :
        DirDirective("cmd_rails_env", d, cmd_rails_env(dirs[d], arg))

RailsAppRoot ==
    \E d \in Dirs, arg \in StrArgs :
        DirDirective("cmd_rails_app_root", d, cmd_rails_app_root(dirs[d], arg))

RailsSpawnMethod ==
    \E d \in Dirs, arg \in SpawnArgs :
        DirDirective("cmd_rails_spawn_method", d, cmd_rails_spawn_method(dirs[d], arg))

RailsFrameworkSpawnerIdleTime ==
    \E d \in Dirs, arg \in NumArgs :
        DirDirective("cmd_rails_framework_spawner_idle_time", d,
                     cmd_rails_framework_spawner_idle_time(dirs[d], arg))

RailsAppSpawnerIdleTime ==
    \E d \in Dirs, arg \in NumArgs :
        DirDirective("cmd_rails_app_spawner_idle_time", d,
                     cmd_rails_app_spawner_idle_time(dirs[d], arg))

RackBaseURI ==
    \E d \in Dirs, arg \in UriArgs :
        DirDirective("cmd_rack_base_uri", d, cmd_rack_base_uri(dirs[d], arg))

RackAutoDetect ==
    \E d \in Dirs, arg \in FlagArgs :
        DirDirective("cmd_rack_auto_detect", d, cmd_rack_auto_detect(dirs[d], arg))

RackEnv ==
    \E d \in Dirs, arg \in StrArgs :
        DirDirective("cmd_rack_env", d, cmd_rack_env(dirs[d], arg))

PassengerWSGIAutoDetect ==
    \E d \in Dirs, arg \in FlagArgs :
        DirDirective("cmd_wsgi_auto_detect", d, cmd_wsgi_auto_detect(dirs[d], arg))

RailsSpawnServer ==
    \E d \in Dirs, arg \in {"/opt/passenger/bin/spawn-server"} :
        DirDirective("cmd_rails_spawn_server", d, cmd_rails_spawn_server(dirs[d], arg))

(***************************************************************************)
(* To resolve a request the host walks down the nested scopes: the first   *)
(* passenger_config_merge_dir call combines the outermost scope with the   *)
(* next one, every later call combines the previous result with the next   *)
(* narrower scope.  Each call yields a fresh record and returns to the     *)
(* host; the scopes' own records are left as they are.  chain[k] is the    *)
(* result of the k-th call, BaseOf(k) and AddOf(k) are its arguments.      *)
(***************************************************************************)
BaseOf(k) == IF k = 1 THEN dirs[1] ELSE chain[k - 1]

AddOf(k) == dirs[k + 1]

\* The record the walk ends with.
Resolved == chain[Len(chain)]

\* The next passenger_config_merge_dir call of the walk.
MergeDir ==
    /\ Len(chain) < NumDirs - 1
    /\ chain' = Append(chain, passenger_config_merge_dir(BaseOf(Len(chain) + 1),
                                                        AddOf(Len(chain) + 1)))
    /\ last' = [op |-> "passenger_config_merge_dir"]
    /\ UNCHANGED <<servers, dirs, nDirectives, nMerges, nNormalize>>

(***************************************************************************)
(* The range-checked numeric directives dispatched with arguments at and   *)
(* around the limits of their range checks.  `last` then holds the         *)
(* handler's name, the scope and position of its target record, the        *)
(* argument, the record as it was before the call and the handler's return *)
(* value, whether or not the handler accepted the argument.                *)
(***************************************************************************)
\* "-1", "0", "1", "9", "10", "5x" and "\f5", a form feed before the digit.
BoundaryArgs ==
    {<<"-", "1">>, <<"0">>, <<"1">>, <<"9">>, <<"1", "0">>, <<"5", "x">>,
     <<"\f", "5">>}

\* "4294967296" and "4294967297": 2^32 and 2^32 + 1, which a long holds and an
\* unsigned int does not.
WideArgs ==
    {<<"4", "2", "9", "4", "9", "6", "7", "2", "9", "6">>,
     <<"4", "2", "9", "4", "9", "6", "7", "2", "9", "7">>}

\* "9223372036854775808", 2^63: one more than a long holds.
OverflowArgs ==
    {<<"9", "2", "2", "3", "3", "7", "2", "0", "3", "6", "8", "5", "4", "7", "7",
       "5", "8", "0", "8">>}

\* "-9223372036854775809", -2^63 - 1: one less than a long holds.
UnderflowArgs ==
    {<<"-", "9", "2", "2", "3", "3", "7", "2", "0", "3", "6", "8", "5", "4", "7",
       "7", "5", "8", "0", "9">>}

RangeArgs == BoundaryArgs \cup WideArgs \cup OverflowArgs \cup UnderflowArgs

BoundaryServerDirective(name, s, arg, r) ==
    /\ nDirectives < MaxDirectives
    /\ nDirectives' = nDirectives + 1
    /\ servers' = [servers EXCEPT ![s] = r.config]
    /\ last' = [op |-> name, scope |-> "server", target |-> s, arg |-> arg,
                before |-> servers[s], ret |-> r.ret]
    /\ UNCHANGED <<dirs, chain, nMerges, nNormalize>>

BoundaryDirDirective(name, d, arg, r) ==
    /\ nDirectives < MaxDirectives
    /\ nDirectives' = nDirectives + 1
    /\ dirs' = [dirs EXCEPT ![d] = r.config]
    /\ last' = [op |-> name, scope |-> "dir", target |-> d, arg |-> arg,
                before |-> dirs[d], ret |-> r.ret]
    /\ UNCHANGED <<servers, chain, nMerges, nNormalize>>

BoundaryLogLevel ==
    \E s \in Servers, arg \in RangeArgs :
        BoundaryServerDirective("cmd_passenger_log_level", s, arg,
                                cmd_passenger_log_level(servers[s], arg))

BoundaryMaxPoolSize ==
    \E s \in Servers, arg \in RangeArgs :
        BoundaryServerDirective("cmd_passenger_max_pool_size", s, arg,
                                cmd_passenger_max_pool_size(servers[s], arg))

BoundaryPoolIdleTime ==
    \E s \in Servers, arg \in RangeArgs :
        BoundaryServerDirective("cmd_passenger_pool_idle_time", s, arg,
                                cmd_passenger_pool_idle_time(servers[s], arg))

BoundaryMaxRequests ==
    \E d \in Dirs, arg \in RangeArgs :
        BoundaryDirDirective("cmd_passenger_max_requests", d, arg,
                             cmd_passenger_max_requests(dirs[d], arg))

BoundaryFrameworkSpawnerIdleTime ==
    \E d \in Dirs, arg \in RangeArgs :
        BoundaryDirDirective("cmd_rails_framework_spawner_idle_time", d, arg,
                             cmd_rails_framework_spawner_idle_time(dirs[d], arg))

BoundaryAppSpawnerIdleTime ==
    \E d \in Dirs, arg \in RangeArgs :
        BoundaryDirDirective("cmd_rails_app_spawner_idle_time", d, arg,
                             cmd_rails_app_spawner_idle_time(dirs[d], arg))

(***************************************************************************)
(* Specifications.                                                         *)
(***************************************************************************)
Init ==
    /\ servers = [s \in Servers |-> passenger_config_create_server]
    /\ dirs = [d \in Dirs |-> passenger_config_create_dir]
    /\ chain = <<>>
    /\ last = [op |-> "none"]
    /\ nDirectives = 0
    /\ nMerges = 0
    /\ nNormalize = 0

NextServer ==
    \/ PassengerRoot
    \/ PassengerLogLevel
    \/ PassengerRuby
    \/ PassengerMaxPoolSize
    \/ PassengerMaxInstancesPerApp
    \/ PassengerPoolIdleTime
    \/ PassengerUserSwitching
    \/ PassengerDefaultUser
    \/ MergeServer
    \/ MergeAllServers

NextDir ==
    \/ PassengerUseGlobalQueue
    \/ PassengerMaxRequests
    \/ PassengerHighPerformance
    \/ PassengerEnabled
    \/ RailsBaseURI
    \/ RailsAutoDetect
    \/ RailsAllowModRewrite
    \/ RailsEnv
    \/ RailsAppRoot
    \/ RailsSpawnMethod
    \/ RailsFrameworkSpawnerIdleTime
    \/ RailsAppSpawnerIdleTime
    \/ RackBaseURI
    \/ RackAutoDetect
    \/ RackEnv
    \/ PassengerWSGIAutoDetect
    \/ RailsSpawnServer
    \/ MergeDir

Next == NextServer \/ NextDir

NextBoundary ==
    \/ BoundaryLogLevel
    \/ BoundaryMaxPoolSize
    \/ BoundaryPoolIdleTime
    \/ BoundaryMaxRequests
    \/ BoundaryFrameworkSpawnerIdleTime
    \/ BoundaryAppSpawnerIdleTime

\* The server-scope records alone.
SpecServer == Init /\ [][NextServer]_vars

\* The directory-scope records alone.
SpecDir == Init /\ [][NextDir]_vars

\* Both scopes.
Spec == Init /\ [][Next]_vars

\* The range-checked setters on the arguments around their limits.
SpecBoundary == Init /\ [][NextBoundary]_vars

(***************************************************************************)
(* Properties.                                                             *)
(***************************************************************************)
Min(S) == CHOOSE x \in S : \A y \in S : x <= y

Max(S) == CHOOSE x \in S : \A y \in S : x >= y

MergedServer == last.op = "passenger_config_merge_server"

MergedAllServers == last.op = "passenger_config_merge_all_servers"

MergedDir == last.op = "passenger_config_merge_dir"

\* The positions of the records of list whose boolean field flag is true.
Setters(list, flag) == {i \in 1..Len(list) : list[i][flag]}

(***************************************************************************)
(* C1.  passenger_config_merge_server follows the explicit-set pattern for *)
(* maxPoolSize, maxInstancesPerApp and poolIdleTime: each equals the       *)
(* override's value when the override's explicit-set flag is true and the  *)
(* base's value otherwise.                                                 *)
(***************************************************************************)
C1_MergeServerExplicitSetPattern ==
    MergedServer =>
        \A p \in ServerFlagged :
            last.result[p.value] =
                IF last.add[p.flag] THEN last.add[p.value] ELSE last.base[p.value]

(***************************************************************************)
(* C2.  As claimed: after passenger_config_merge_all_servers every record  *)
(* holds, for maxPoolSize, maxInstancesPerApp and poolIdleTime, the value  *)
(* of the LAST server in declaration order that has the field explicitly   *)
(* set, or the creation default if no server set it, and the flag is the   *)
(* OR of all servers' flags.                                               *)
(***************************************************************************)
C2_LastExplicitSetterWins ==
    MergedAllServers =>
        \A s \in Servers, p \in ServerFlagged :
            LET set == Setters(last.before, p.flag) IN
            /\ servers[s][p.flag] = (set # {})
            /\ servers[s][p.value] =
                   IF set = {} THEN passenger_config_create_server[p.value]
                   ELSE last.before[Max(set)][p.value]

(***************************************************************************)
(* C2, amended.  After passenger_config_merge_all_servers every record     *)
(* holds, for maxPoolSize, maxInstancesPerApp and poolIdleTime, the value  *)
(* of the FIRST server in declaration order that has the field explicitly  *)
(* set, or the creation default if no server set it, and the flag is the   *)
(* OR of all servers' flags.                                               *)
(***************************************************************************)
C2_FirstExplicitSetterWins ==
    MergedAllServers =>
        \A s \in Servers, p \in ServerFlagged :
            LET set == Setters(last.before, p.flag) IN
            /\ servers[s][p.flag] = (set # {})
            /\ servers[s][p.value] =
                   IF set = {} THEN passenger_config_create_server[p.value]
                   ELSE last.before[Min(set)][p.value]

\* Two servers set maxPoolSize to different values and the first one's value
\* was broadcast.
C2_Witness ==
    /\ MergedAllServers
    /\ last.before[1].maxPoolSizeSpecified
    /\ last.before[2].maxPoolSizeSpecified
    /\ last.before[1].maxPoolSize # last.before[2].maxPoolSize
    /\ \A s \in Servers : servers[s].maxPoolSize = last.before[1].maxPoolSize

(***************************************************************************)
(* C3.  After passenger_config_merge_all_servers every record's            *)
(* userSwitching is that of the last server in declaration order whose     *)
(* userSwitchingSpecified was true, or the creation default when no server *)
(* set it.                                                                 *)
(***************************************************************************)
C3_LastUserSwitchingWins ==
    MergedAllServers =>
        \A s \in Servers :
            LET set == Setters(last.before, "userSwitchingSpecified") IN
            servers[s].userSwitching =
                IF set = {} THEN passenger_config_create_server.userSwitching
                ELSE last.before[Max(set)].userSwitching

\* Two servers set userSwitching to different values, the later one to the
\* value that is not the default, and the later one's value was broadcast.
C3_Witness ==
    /\ MergedAllServers
    /\ last.before[1].userSwitchingSpecified
    /\ last.before[1].userSwitching
    /\ last.before[NumServers].userSwitchingSpecified
    /\ ~last.before[NumServers].userSwitching
    /\ \A s \in Servers : ~servers[s].userSwitching

(***************************************************************************)
(* C4.  After passenger_config_merge_all_servers every server record is    *)
(* the same, and ruby, root, defaultUser and logLevel are the first        *)
(* non-null (non-zero for logLevel) value in declaration order, or null /  *)
(* 0 when no server has one.                                               *)
(***************************************************************************)
C4_FirstNonNullBroadcast ==
    MergedAllServers =>
        /\ \A s, t \in Servers : servers[s] = servers[t]
        /\ \A s \in Servers, f \in ServerStrings :
               LET have == {i \in 1..Len(last.before) : last.before[i][f] # NULL} IN
               servers[s][f] = IF have = {} THEN NULL ELSE last.before[Min(have)][f]
        /\ \A s \in Servers :
               LET have == {i \in 1..Len(last.before) : last.before[i].logLevel # ToLong(0)} IN
               servers[s].logLevel =
                   IF have = {} THEN ToLong(0) ELSE last.before[Min(have)].logLevel

\* Only a server after the first set defaultUser, and every record reports it.
C4_Witness ==
    /\ MergedAllServers
    /\ last.before[1].defaultUser = NULL
    /\ last.before[2].defaultUser # NULL
    /\ \A s \in Servers : servers[s].defaultUser = last.before[2].defaultUser

(***************************************************************************)
(* C5.  passenger_config_merge_dir: every tri-state field, nullable        *)
(* string, the spawn method and every -1-sentinel timeout is the           *)
(* override's value unless that is the unset marker, in which case it is   *)
(* the base's value whatever the base holds; maxRequests and memoryLimit   *)
(* are the override's value iff the override's explicit-set flag is true,  *)
(* else the base's; railsBaseURIs and rackBaseURIs are the union of the    *)
(* base's and the override's sets.                                         *)
(***************************************************************************)
C5_MergeDirRules ==
    \A k \in 1..Len(chain) :
        /\ \A f \in MarkerFields :
               chain[k][f] =
                   IF AddOf(k)[f] = UnsetMarker(f) THEN BaseOf(k)[f] ELSE AddOf(k)[f]
        /\ \A p \in DirFlagged :
               chain[k][p.value] =
                   IF AddOf(k)[p.flag] THEN AddOf(k)[p.value] ELSE BaseOf(k)[p.value]
        /\ \A f \in SetFields : chain[k][f] = BaseOf(k)[f] \cup AddOf(k)[f]

\* The base reserved one URI, the override another, and the result holds both.
C5_Witness ==
    /\ MergedDir
    /\ BaseOf(1).railsBaseURIs = {"/app1"}
    /\ AddOf(1).railsBaseURIs = {"/app2"}
    /\ chain[1].railsBaseURIs = {"/app1", "/app2"}

(***************************************************************************)
(* C6.  The explicit-set flags are monotonic under merging: the result of  *)
(* passenger_config_merge_server or passenger_config_merge_dir has a flag  *)
(* true whenever the base or the override has it true, and along the chain *)
(* of directory merges every result has each flag that any scope or any    *)
(* earlier result it descends from has.                                    *)
(***************************************************************************)
ServerFlags ==
    {"maxPoolSizeSpecified", "maxInstancesPerAppSpecified",
     "poolIdleTimeSpecified", "userSwitchingSpecified"}

DirFlags == {"maxRequestsSpecified", "memoryLimitSpecified"}

C6_ExplicitSetMonotonic ==
    /\ MergedServer =>
           \A f \in ServerFlags : (last.base[f] \/ last.add[f]) => last.result[f]
    /\ \A k \in 1..Len(chain), f \in DirFlags :
           /\ (BaseOf(k)[f] \/ AddOf(k)[f]) => chain[k][f]
           /\ ((\E d \in 1..(k + 1) : dirs[d][f]) \/ (\E j \in 1..(k - 1) : chain[j][f]))
                  => chain[k][f]

\* The outermost scope set maxRequests, no narrower scope did, and the flag
\* is still true after two merges down the chain.
C6_Witness ==
    /\ Len(chain) = 2
    /\ dirs[1].maxRequestsSpecified
    /\ ~dirs[2].maxRequestsSpecified
    /\ ~dirs[3].maxRequestsSpecified
    /\ chain[1].maxRequestsSpecified
    /\ chain[2].maxRequestsSpecified

(***************************************************************************)
(* C7.  passenger_config_merge_server: ruby, root and defaultUser are the  *)
(* override's value if it is non-null and the base's otherwise;            *)
(* userSwitching is the override's value only if the override's            *)
(* userSwitchingSpecified is true and the base's otherwise; logLevel is    *)
(* the base's logLevel when the override's logLevel is non-zero and the    *)
(* override's logLevel otherwise.                                          *)
(***************************************************************************)
C7_MergeServerRules ==
    MergedServer =>
        /\ \A f \in ServerStrings :
               last.result[f] = IF last.add[f] # NULL THEN last.add[f] ELSE last.base[f]
        /\ last.result.userSwitching =
               IF last.add.userSwitchingSpecified
               THEN last.add.userSwitching ELSE last.base.userSwitching
        /\ last.result.logLevel =
               IF last.add.logLevel # ToLong(0) THEN last.base.logLevel ELSE last.add.logLevel

\* Base and override set different non-zero log levels and the result holds
\* the base's.
C7_Witness ==
    /\ MergedServer
    /\ last.add.logLevel # ToLong(0)
    /\ last.base.logLevel # ToLong(0)
    /\ last.base.logLevel # last.add.logLevel
    /\ last.result.logLevel = last.base.logLevel

(***************************************************************************)
(* C8.  passenger_config_merge_all_servers is idempotent: a second run     *)
(* right after the first leaves every server record as the first run left  *)
(* it.                                                                     *)
(***************************************************************************)
C8_MergeAllServersIdempotent ==
    (MergedAllServers /\ nNormalize >= 2) => servers = last.before

\* A second run on a list the first run filled with values that servers set.
C8_Witness ==
    /\ MergedAllServers
    /\ nNormalize = 2
    /\ servers = last.before
    /\ servers[1].maxPoolSizeSpecified
    /\ servers[1].maxPoolSize # ToLong(DEFAULT_MAX_POOL_SIZE)
    /\ servers[1].ruby # NULL

(***************************************************************************)
(* C9.  As claimed: after the full directory cascade no field of the final *)
(* resolved record holds an unset marker (UNSET, SM_UNSET, NULL or -1).    *)
(***************************************************************************)
CascadeDone == MergedDir /\ Len(chain) = NumDirs - 1

C9_NoUnsetInResolved ==
    CascadeDone => \A f \in MarkerFields : Resolved[f] # UnsetMarker(f)

(***************************************************************************)
(* C9, amended.  After the full directory cascade a field of the final     *)
(* resolved record holds an unset marker exactly when no scope of the      *)
(* chain set that field; neither passenger_config_create_dir nor           *)
(* passenger_config_merge_dir puts a default in its place.                 *)
(***************************************************************************)
C9_UnsetIffNoScopeSet ==
    CascadeDone =>
        \A f \in MarkerFields :
            (Resolved[f] = UnsetMarker(f)) <=> (\A d \in Dirs : dirs[d][f] = UnsetMarker(f))

\* The outermost scope chose a spawn method, no scope set a timeout: the
\* resolved record has the spawn method and still has the -1.
C9_Witness ==
    /\ CascadeDone
    /\ dirs[1].spawnMethod # "SM_UNSET"
    /\ dirs[NumDirs].spawnMethod = "SM_UNSET"
    /\ Resolved.spawnMethod = dirs[1].spawnMethod
    /\ Resolved.appSpawnerTimeout = ToLong(-1)

(***************************************************************************)
(* C10.  Whenever a setter handler returns an error message the target     *)
(* record is as it was before the call: the value field keeps its prior    *)
(* value and no explicit-set flag changes.                                 *)
(***************************************************************************)
SetterFailed == "ret" \in DOMAIN last /\ last.ret # NULL

Target == IF last.scope = "server" THEN servers[last.target] ELSE dirs[last.target]

C10_FailedSetterLeavesRecord ==
    SetterFailed => Target = last.before

\* RailsSpawnMethod "turbo" as the first occurrence in its scope is rejected
\* and the field is still SM_UNSET.
C10_Witness ==
    /\ SetterFailed
    /\ last.op = "cmd_rails_spawn_method"
    /\ last.before.spawnMethod = "SM_UNSET"
    /\ Target.spawnMethod = "SM_UNSET"

(***************************************************************************)
(* C11.  The range-checked integer setters accept and reject exactly at    *)
(* their limits: PassengerLogLevel accepts the integers 0..9,              *)
(* PassengerMaxPoolSize and PassengerPoolIdleTime accept 1 and above,      *)
(* PassengerMaxRequests and the two spawner idle-time setters accept 0 and *)
(* above, every one of them rejects an argument with a trailing            *)
(* non-numeric character, and on success the stored field equals the       *)
(* parsed value.                                                           *)
(***************************************************************************)
RangeChecked ==
    [cmd_passenger_log_level               |-> [field |-> "logLevel", min |-> 0],
     cmd_passenger_max_pool_size           |-> [field |-> "maxPoolSize", min |-> 1],
     cmd_passenger_pool_idle_time          |-> [field |-> "poolIdleTime", min |-> 1],
     cmd_passenger_max_requests            |-> [field |-> "maxRequests", min |-> 0],
     cmd_rails_framework_spawner_idle_time |-> [field |-> "frameworkSpawnerTimeout", min |-> 0],
     cmd_rails_app_spawner_idle_time       |-> [field |-> "appSpawnerTimeout", min |-> 0]]

BoundaryCall == "arg" \in DOMAIN last

\* Optional white space, an optional sign, then decimal digits and nothing
\* else.
IsInteger(arg) ==
    LET w == SkipSpace(arg, 1)
        d == IF w <= Len(arg) /\ arg[w] \in {"-", "+"} THEN w + 1 ELSE w
    IN  d <= Len(arg) /\ \A i \in d..Len(arg) : IsDigit(arg[i])

InRange(op, v) ==
    /\ ~LongLess(v, RangeChecked[op].min)
    /\ op = "cmd_passenger_log_level" => LongLess(v, 10)

C11_AcceptsExactlyInRange ==
    BoundaryCall =>
        (last.ret = NULL) <=>
            (IsInteger(last.arg) /\ InRange(last.op, strtol(last.arg).result))

C11_StoredEqualsParsed ==
    BoundaryCall /\ last.ret = NULL =>
        Target[RangeChecked[last.op].field] = strtol(last.arg).result

\* C11: acceptance exactly within the range, and on success the stored field
\* equal to the parsed value.
C11_RangeCheckedSetters ==
    C11_AcceptsExactlyInRange /\ C11_StoredEqualsParsed

(***************************************************************************)
(* C12.  In every record reachable from passenger_config_create_server and *)
(* passenger_config_create_dir through setter calls (accepted or           *)
(* rejected), pairwise merges and passenger_config_merge_all_servers, a    *)
(* value field whose explicit-set flag is false holds its creation default *)
(* (maxPoolSize 6, maxInstancesPerApp 0, poolIdleTime 300, userSwitching   *)
(* true, maxRequests 0, memoryLimit 0): a non-default value never appears  *)
(* without its flag.                                                       *)
(***************************************************************************)
ServerFlaggedAll ==
    ServerFlagged \cup {[value |-> "userSwitching", flag |-> "userSwitchingSpecified"]}

UnflaggedServerDefault(config) ==
    \A p \in ServerFlaggedAll :
        ~config[p.flag] => config[p.value] = passenger_config_create_server[p.value]

UnflaggedDirDefault(config) ==
    \A p \in DirFlagged :
        ~config[p.flag] => config[p.value] = passenger_config_create_dir[p.value]

C12_UnflaggedHoldsDefault ==
    /\ \A s \in Servers : UnflaggedServerDefault(servers[s])
    /\ MergedServer => UnflaggedServerDefault(last.result)
    /\ \A d \in Dirs : UnflaggedDirDefault(dirs[d])
    /\ \A k \in 1..Len(chain) : UnflaggedDirDefault(chain[k])

\* After a pairwise merge, the cross-server merge and the directory walk: a
\* server record holds a set, non-default maxPoolSize next to an unset
\* poolIdleTime of 300, and the resolved directory record holds a set
\* maxRequests next to an unset memoryLimit of 0.
C12_Witness ==
    /\ nMerges > 0 /\ nNormalize > 0
    /\ \E s \in Servers :
           /\ servers[s].maxPoolSizeSpecified
           /\ servers[s].maxPoolSize # ToLong(DEFAULT_MAX_POOL_SIZE)
           /\ ~servers[s].poolIdleTimeSpecified
           /\ servers[s].poolIdleTime = ToLong(DEFAULT_POOL_IDLE_TIME)
    /\ chain # <<>>
    /\ Resolved.maxRequestsSpecified
    /\ Resolved.maxRequests # ToLong(0)
    /\ ~Resolved.memoryLimitSpecified
    /\ Resolved.memoryLimit = ToLong(0)

====
